---------------------------- MODULE Spec2Model ----------------------------
(***************************************************************************)
(* A model of reliability.py: split_half (random split-half reliability)   *)
(* and test_retest (Fisher / Harris intraclass correlation).               *)
(*                                                                         *)
(* Numbers.  The code computes in IEEE floating point; the model computes  *)
(* the same expressions exactly.  A finite real is a finite sum            *)
(*     c_1*sqrt(d_1) + ... + c_k*sqrt(d_k)                                 *)
(* with rational coefficients c_i # 0 and distinct square-free radicands   *)
(* d_i >= 1 (d = 1 is the rational part), held as the set of its terms     *)
(* [d, n, m] (coefficient n/m in lowest terms, m > 0).  The sum is closed  *)
(* under + - * and under the two roots the code takes on the way to a      *)
(* trial sample (pearsonr's sqrt of a rational, the division by 1 + r).    *)
(* The values floating point adds to the reals are kept: a number is a     *)
(* record [k, v] with k one of "fin", "nan", "pinf", "ninf".               *)
(***************************************************************************)
EXTENDS Integers, Sequences, FiniteSets

\* ------------------------------------------------------------------------
\* Integers and rationals <<n, m>>, m > 0, gcd(n, m) = 1.

Abs(a) == IF a < 0 THEN -a ELSE a

RECURSIVE Gcd(_, _)
Gcd(a, b) == IF b = 0 THEN a ELSE Gcd(b, a % b)

RNorm(n, m) ==
    LET s == IF m < 0 THEN -1 ELSE 1
        g == Gcd(Abs(n), Abs(m))
    IN  <<(s * n) \div g, (s * m) \div g>>

RAdd(a, b) ==
    LET g == Gcd(a[2], b[2])
    IN  RNorm(a[1] * (b[2] \div g) + b[1] * (a[2] \div g), a[2] * (b[2] \div g))

RMul(a, b) ==
    LET g1 == Gcd(Abs(a[1]), b[2])
        g2 == Gcd(Abs(b[1]), a[2])
    IN  IF a[1] = 0 \/ b[1] = 0 THEN <<0, 1>>
        ELSE <<(a[1] \div g1) * (b[1] \div g2), (a[2] \div g2) * (b[2] \div g1)>>

RInv(a) == RNorm(a[2], a[1])

RNeg(a) == <<-a[1], a[2]>>

\* The largest k with k*k dividing x (x >= 1): x = k*k*d with d square-free.
RECURSIVE IsqrtUp(_, _)
IsqrtUp(x, k) == IF (k + 1) * (k + 1) > x THEN k ELSE IsqrtUp(x, k + 1)

RECURSIVE SqDown(_, _)
SqDown(x, k) == IF x % (k * k) = 0 THEN k ELSE SqDown(x, k - 1)

SqPart(x) == SqDown(x, IsqrtUp(x, 1))

\* ------------------------------------------------------------------------
\* Finite reals: sets of terms.

MkTerm(d, c) == [d |-> d, n |-> c[1], m |-> c[2]]

QRat(n, m) == IF n = 0 THEN {} ELSE {MkTerm(1, RNorm(n, m))}

QInt(n) == QRat(n, 1)

Coef(q, d) ==
    IF \E t \in q : t.d = d
    THEN LET t == CHOOSE t \in q : t.d = d IN <<t.n, t.m>>
    ELSE <<0, 1>>

QAdd(a, b) ==
    LET ds == {t.d : t \in a \cup b}
        nz == {d \in ds : RAdd(Coef(a, d), Coef(b, d))[1] # 0}
    IN  {MkTerm(d, RAdd(Coef(a, d), Coef(b, d))) : d \in nz}

QNeg(a) == {[d |-> t.d, n |-> -t.n, m |-> t.m] : t \in a}

QSub(a, b) == QAdd(a, QNeg(b))

\* c*sqrt(d) times c'*sqrt(d'): with g = gcd(d, d'), sqrt(d*d') = g*sqrt(d*d'/g^2).
TermMul(s, t) ==
    LET g == Gcd(s.d, t.d)
    IN  MkTerm((s.d \div g) * (t.d \div g),
               RMul(RMul(<<s.n, s.m>>, <<t.n, t.m>>), <<g, 1>>))

RECURSIVE QMul(_, _)
QMul(a, b) ==
    IF a = {} THEN {}
    ELSE LET s == CHOOSE s \in a : TRUE
         IN  QAdd({TermMul(s, t) : t \in b}, QMul(a \ {s}, b))

QIsRat(a) == \A t \in a : t.d = 1

\* 1/b for b # 0 with at most one irrational term: b = u + c*sqrt(d),
\* 1/b = (u - c*sqrt(d)) / (u*u - c*c*d).  (Every divisor of the code has
\* this shape: a count, a variance, sqrt of a rational, 1 + pearson_r.)
QInv(b) ==
    LET u   == Coef(b, 1)
        irr == {t \in b : t.d # 1}
    IN  CASE irr = {} -> {MkTerm(1, RInv(u))}
          [] Cardinality(irr) = 1 ->
                LET t   == CHOOSE t \in irr : TRUE
                    c   == <<t.n, t.m>>
                    den == RAdd(RMul(u, u), RNeg(RMul(RMul(c, c), <<t.d, 1>>)))
                    di  == RInv(den)
                IN  QAdd(IF u[1] = 0 THEN {} ELSE {MkTerm(1, RMul(u, di))},
                         {MkTerm(t.d, RNeg(RMul(c, di)))})

\* sqrt of a rational q >= 0: sqrt(n/m) = sqrt(n*m)/m = k*sqrt(d)/m, n*m = k*k*d.
QSqrtRat(q) ==
    LET c == Coef(q, 1)
        x == c[1] * c[2]
        k == SqPart(x)
    IN  IF q = {} THEN {} ELSE {MkTerm(x \div (k * k), RNorm(k, c[2]))}

\* ------------------------------------------------------------------------
\* Floating-point values: finite reals, nan, +inf, -inf.

Fin(q) == [k |-> "fin", v |-> q]
NaN    == [k |-> "nan", v |-> {}]
PInf   == [k |-> "pinf", v |-> {}]
NInf   == [k |-> "ninf", v |-> {}]

Num(n)  == Fin(QInt(n))
IsFin(a) == a.k = "fin"
IsZero(a) == a.k = "fin" /\ a.v = {}

\* Sign of a rational finite value (the only place a sign is needed: x / 0).
RatSign(a) == LET c == Coef(a.v, 1) IN IF c[1] > 0 THEN 1 ELSE IF c[1] < 0 THEN -1 ELSE 0

NNeg(a) ==
    CASE a.k = "fin"  -> Fin(QNeg(a.v))
      [] a.k = "nan"  -> NaN
      [] a.k = "pinf" -> NInf
      [] a.k = "ninf" -> PInf

NAdd(a, b) ==
    CASE a.k = "nan" \/ b.k = "nan" -> NaN
      [] a.k = "fin" /\ b.k = "fin" -> Fin(QAdd(a.v, b.v))
      [] a.k = "fin" -> b
      [] b.k = "fin" -> a
      [] a.k = b.k   -> a
      [] OTHER       -> NaN          \* inf + (-inf)

NSub(a, b) == NAdd(a, NNeg(b))

\* Sign of an infinity or of a rational finite value.
NSign(a) == IF a.k = "pinf" THEN 1 ELSE IF a.k = "ninf" THEN -1 ELSE RatSign(a)

\* A product with an infinite factor takes its sign from both factors
\* (the code never multiplies an infinity by a finite irrational).
NMul(a, b) ==
    CASE a.k = "nan" \/ b.k = "nan" -> NaN
      [] a.k = "fin" /\ b.k = "fin" -> Fin(QMul(a.v, b.v))
      [] IsZero(a) \/ IsZero(b)     -> NaN          \* 0 * inf
      [] (a.k # "fin" \/ QIsRat(a.v)) /\ (b.k # "fin" \/ QIsRat(b.v)) ->
            IF NSign(a) * NSign(b) > 0 THEN PInf ELSE NInf

\* IEEE division: x/0 is nan for x = 0 and a signed infinity otherwise.
NDiv(a, b) ==
    CASE a.k = "nan" \/ b.k = "nan" -> NaN
      [] a.k = "fin" /\ b.k = "fin" /\ b.v # {} -> Fin(QMul(a.v, QInv(b.v)))
      [] a.k = "fin" /\ b.k = "fin" /\ a.v = {} -> NaN
      [] a.k = "fin" /\ b.k = "fin" /\ QIsRat(a.v) ->
            IF RatSign(a) > 0 THEN PInf ELSE NInf
      [] a.k = "fin" -> Fin({})                     \* finite / inf
      [] b.k = "fin" /\ QIsRat(b.v) /\ b.v # {} ->
            IF RatSign(b) > 0 THEN a ELSE NNeg(a)   \* inf / finite
      [] OTHER -> NaN                               \* inf / inf


\* sqrt of a rational value (pearsonr's denominator).
NSqrt(a) ==
    CASE a.k = "nan" -> NaN
      [] a.k = "pinf" -> PInf
      [] a.k = "ninf" -> NaN
      [] a.k = "fin" /\ QIsRat(a.v) ->
            IF RatSign(a) < 0 THEN NaN ELSE Fin(QSqrtRat(a.v))

\* A non-negative root kept by its square: the value sgn * sqrt(sq), sgn in
\* {0, 1}.  numpy.std and the division by numpy.sqrt(n_splits) produce these;
\* the radicand is a mean of squares, so it is never negative.
Root(sgn, sq) == [k |-> "fin", sgn |-> sgn, sq |-> sq]
RootNaN       == [k |-> "nan", sgn |-> 0, sq |-> {}]
RootUnbound   == [k |-> "unbound", sgn |-> 0, sq |-> {}]

RootOf(a) ==
    IF a.k = "fin" THEN Root(IF a.v = {} THEN 0 ELSE 1, a.v) ELSE RootNaN

\* sqrt(u) / sqrt(w) = sqrt(u / w) for w > 0 rational.
RootDiv(s, t) ==
    IF s.k = "fin" /\ t.k = "fin" /\ t.sgn = 1
    THEN Root(s.sgn, QMul(s.sq, QInv(t.sq)))
    ELSE RootNaN

Unbound == [k |-> "unbound", v |-> {}]

\* ------------------------------------------------------------------------
\* numpy on vectors (sequences) and matrices (sequences of rows).

\* The function f on 1..n as a tuple of values.
RECURSIVE Tup(_, _)
Tup(f, n) == IF n = 0 THEN <<>> ELSE Append(Tup(f, n - 1), f[n])

RECURSIVE NSum(_)
NSum(s) == IF s = <<>> THEN Num(0) ELSE NAdd(Head(s), NSum(Tail(s)))

\* numpy.mean of a vector; the mean of an empty vector is 0/0 = nan.
Mean(s) == NDiv(NSum(s), Num(Len(s)))

\* numpy.mean(g, axis=0) of a rows x cols matrix: one mean per column.
MeanAxis0(g, cols) ==
    Tup([j \in 1..cols |-> Mean(Tup([k \in 1..Len(g) |-> g[k][j]], Len(g)))], cols)

\* numpy.std: sqrt(mean(abs(s - mean(s))**2)), divisor Len(s).
Std(s) ==
    LET mu == Mean(s)
        dv == Tup([k \in 1..Len(s) |-> NSub(s[k], mu)], Len(s))
        sq == Tup([k \in 1..Len(s) |-> NMul(dv[k], dv[k])], Len(s))
    IN  RootOf(Mean(sq))

RECURSIVE Flatten(_)
Flatten(g) == IF g = <<>> THEN <<>> ELSE Head(g) \o Flatten(Tail(g))

\* x[halves == lab]: the entries of x whose label is lab, in row-major order,
\* as one flat vector.
RECURSIVE MaskSelect(_, _, _)
MaskSelect(fx, fh, lab) ==
    IF fx = <<>> THEN <<>>
    ELSE (IF Head(fh) = lab THEN <<Head(fx)>> ELSE <<>>)
            \o MaskSelect(Tail(fx), Tail(fh), lab)

\* numpy.reshape(flat, (rows, cols)), row-major (C order).
Reshape(flat, rows, cols) ==
    Tup([k \in 1..rows |-> Tup([j \in 1..cols |-> flat[(k - 1) * cols + j]], cols)],
        rows)

\* scipy.stats.pearsonr: sum(xm*ym) / sqrt(sum(xm^2) * sum(ym^2)) on the
\* mean-centred vectors; nan when either vector is constant.
Pearsonr(a, b) ==
    LET n  == Len(a)
        ma == Mean(a)
        mb == Mean(b)
        xm == Tup([j \in 1..n |-> NSub(a[j], ma)], n)
        ym == Tup([j \in 1..n |-> NSub(b[j], mb)], n)
        r_num == NSum(Tup([j \in 1..n |-> NMul(xm[j], ym[j])], n))
        ssx   == NSum(Tup([j \in 1..n |-> NMul(xm[j], xm[j])], n))
        ssy   == NSum(Tup([j \in 1..n |-> NMul(ym[j], ym[j])], n))
    IN  NDiv(r_num, NSqrt(NMul(ssx, ssy)))

\* The permutations of 1..n.
Perms(n) == {f \in [1..n -> 1..n] : \A a, b \in 1..n : f[a] = f[b] => a = b}

\* A plausible slip: only the first column is permuted, the rows torn apart.
ShuffleCells(h, perm) ==
    Tup([k \in 1..Len(h) |->
            Tup([j \in 1..Len(h[k]) |-> IF j = 1 THEN h[perm[k]][j] ELSE h[k][j]],
                Len(h[k]))],
        Len(h))

\* numpy.random.shuffle(h): the rows are permuted, each row kept whole.
Shuffle(h, perm) == Tup([k \in 1..Len(h) |-> h[perm[k]]], Len(h))

\* ------------------------------------------------------------------------
\* Bounds and inputs.

MaxSplits == 2          \* split_half: n_splits ranges over -1 .. MaxSplits
MaxVal    == 2          \* test_retest: the entries of x range over 0 .. MaxVal

SplitModes  == {"correlation", "spearman-brown", "correlate", "bogus"}
RetestModes == {"fisher", "harris", "bogus"}

\* split_half is called on the matrices of 2 or 3 observations whose rows come
\* from a pool of subject vectors (2 or 3 subjects).  The pools make every
\* kind of trial occur: constant half-means (the correlation is nan),
\* correlations +1 and -1, a rational one (1/2) and an irrational one
\* (sqrt(3)/2), and within one call trials with different correlations.
RowPool ==
    {<<0, 0>>, <<0, 1>>, <<0, 2>>, <<1, 0>>,
     <<0, 0, 1>>, <<0, 1, 2>>, <<0, 2, 1>>, <<1, 1, 1>>}

AsFloats(e) == [k \in 1..Len(e) |-> [j \in 1..Len(e[k]) |-> Num(e[k][j])]]

SplitInputs ==
    {AsFloats(e) : e \in {e \in [1..2 -> RowPool] \cup [1..3 -> RowPool] :
                            \A k \in 1..Len(e) : Len(e[k]) = Len(e[1])}}

\* test_retest is called on every matrix of these shapes over 0 .. MaxVal.
RetestShapes == {<<1, 2>>, <<2, 1>>, <<2, 2>>, <<2, 3>>, <<3, 2>>}

RetestInputs ==
    UNION {{AsFloats(e) : e \in [1..sh[1] -> [1..sh[2] -> 0..MaxVal]]} :
            sh \in RetestShapes}

\* ------------------------------------------------------------------------
\* State.  The program's variables keep their names; pc is the position in
\* the running function; x_in, n_shuffles, n_writes and n_allocs record the
\* call's history (the argument at entry, the shuffles made, the writes to
\* each r_[k], the label arrays created).

VARIABLES fn, pc, err, x, mode, n_splits,
          halves, i, r_, x_1, x_2, m_1, m_2, pearson_r, r, sem,
          x_in, n_shuffles, n_writes, n_allocs

vars == <<fn, pc, err, x, mode, n_splits,
          halves, i, r_, x_1, x_2, m_1, m_2, pearson_r, r, sem,
          x_in, n_shuffles, n_writes, n_allocs>>

n_observations == Len(x)
n_subjects     == Len(x[1])
n_measurements == Len(x)
n_half_1       == n_observations \div 2
n_half_2       == n_observations - n_half_1

Locals0 ==
    /\ pc = "call" /\ err = "none"
    /\ halves = <<>> /\ i = 0 /\ r_ = <<>>
    /\ x_1 = <<>> /\ x_2 = <<>> /\ m_1 = <<>> /\ m_2 = <<>>
    /\ pearson_r = Unbound /\ r = Unbound /\ sem = RootUnbound
    /\ x_in = x /\ n_shuffles = 0 /\ n_writes = <<>> /\ n_allocs = 0

InitSplit ==
    /\ fn = "split_half"
    /\ x \in SplitInputs
    /\ mode \in SplitModes
    /\ n_splits \in -1..MaxSplits
    /\ Locals0

InitRetest ==
    /\ fn = "test_retest"
    /\ x \in RetestInputs
    /\ mode \in RetestModes
    /\ n_splits = 0
    /\ Locals0

Init == InitSplit \/ InitRetest

\* ------------------------------------------------------------------------
\* split_half

allowed_modes == {"correlation", "spearman-brown"}

\* A plausible slip: n_splits = 0 let through.
NSplitsTooSmallLax(n) == n < 0

\* Line 43: n_splits < 1.
NSplitsTooSmall(n) == n < 1

\* Lines 43-45: raise Exception when n_splits < 1.
SHRaiseNSplits ==
    /\ fn = "split_half" /\ pc = "call"
    /\ NSplitsTooSmall(n_splits)
    /\ pc' = "error" /\ err' = "Exception"
    /\ UNCHANGED <<fn, x, mode, n_splits, halves, i, r_, x_1, x_2, m_1, m_2,
                   pearson_r, r, sem, x_in, n_shuffles, n_writes, n_allocs>>

\* Lines 46-49: raise Exception when mode is not an allowed mode.
SHRaiseMode ==
    /\ fn = "split_half" /\ pc = "call"
    /\ ~NSplitsTooSmall(n_splits)
    /\ mode \notin allowed_modes
    /\ pc' = "error" /\ err' = "Exception"
    /\ UNCHANGED <<fn, x, mode, n_splits, halves, i, r_, x_1, x_2, m_1, m_2,
                   pearson_r, r, sem, x_in, n_shuffles, n_writes, n_allocs>>

\* Lines 59-60: ones((M, N)) with the rows from n_half_1 on set to 2.
InitialHalves(M, N, h1) ==
    [k \in 1..M |-> [j \in 1..N |-> IF k <= h1 THEN 1 ELSE 2]]

\* Lines 52-63: the checks passed; build the label array and r_ = zeros.
SHSetup ==
    /\ fn = "split_half" /\ pc = "call"
    /\ ~NSplitsTooSmall(n_splits)
    /\ mode \in allowed_modes
    /\ halves' = InitialHalves(n_observations, n_subjects, n_half_1)
    /\ n_allocs' = n_allocs + 1
    /\ r_' = [k \in 1..n_splits |-> Num(0)]
    /\ n_writes' = [k \in 1..n_splits |-> 0]
    /\ i' = 0
    /\ pc' = "loop"
    /\ UNCHANGED <<fn, err, x, mode, n_splits, x_1, x_2, m_1, m_2,
                   pearson_r, r, sem, x_in, n_shuffles>>

\* A plausible slip: one trial too many.
LoopRunsOneMore(k, n) == k <= n

\* Line 64: range(n_splits) yields another trial index.

LoopRuns(k, n) == k < n

\* A plausible slip: the data is shuffled instead of the labels.
SHShuffleData ==
    /\ fn = "split_half" /\ pc = "loop"
    /\ LoopRuns(i, n_splits)
    /\ \E perm \in Perms(n_observations) : x' = Shuffle(x, perm)
    /\ n_shuffles' = n_shuffles + 1
    /\ pc' = "trial"
    /\ UNCHANGED <<fn, err, halves, mode, n_splits, i, r_, x_1, x_2, m_1, m_2,
                   pearson_r, r, sem, x_in, n_writes, n_allocs>>

\* Lines 64-67: trial i begins; the label array is shuffled in place.
SHShuffle ==
    /\ fn = "split_half" /\ pc = "loop"
    /\ LoopRuns(i, n_splits)
    /\ \E perm \in Perms(n_observations) : halves' = Shuffle(halves, perm)
    /\ n_shuffles' = n_shuffles + 1
    /\ pc' = "trial"
    /\ UNCHANGED <<fn, err, x, mode, n_splits, i, r_, x_1, x_2, m_1, m_2,
                   pearson_r, r, sem, x_in, n_writes, n_allocs>>

\* A plausible slip: the reshape fills column by column (order='F').
GroupF(lab, rows) ==
    LET flat == MaskSelect(Flatten(x), Flatten(halves), lab)
    IN  Tup([k \in 1..rows |->
                Tup([j \in 1..n_subjects |-> flat[(j - 1) * rows + k]], n_subjects)],
            rows)

\* Lines 70-71: boolean-mask selection, then reshape to (rows, n_subjects).
Group(lab, rows) ==
    Reshape(MaskSelect(Flatten(x), Flatten(halves), lab), rows, n_subjects)

\* A plausible slip: the two mode branches exchanged.
SampleSwapped(md, p) ==
    IF md = "spearman-brown" THEN p
    ELSE NDiv(NMul(Num(2), p), NAdd(Num(1), p))

\* Lines 81-84: the trial sample stored for raw correlation p.
Sample(md, p) ==
    IF md = "correlation" THEN p
    ELSE NDiv(NMul(Num(2), p), NAdd(Num(1), p))

\* Lines 70-84: split the data, average each group per subject, correlate
\* the two averages and store the trial's sample in r_[i].
SHTrial ==
    /\ fn = "split_half" /\ pc = "trial"
    /\ LET g1 == Group(1, n_half_1)
           g2 == Group(2, n_half_2)
           a1 == MeanAxis0(g1, n_subjects)
           a2 == MeanAxis0(g2, n_subjects)
           p  == Pearsonr(a1, a2)
       IN  /\ x_1' = g1 /\ x_2' = g2
           /\ m_1' = a1 /\ m_2' = a2
           /\ pearson_r' = p
           /\ r_' = [r_ EXCEPT ![i + 1] = Sample(mode, p)]
    /\ n_writes' = [n_writes EXCEPT ![i + 1] = @ + 1]
    /\ i' = i + 1
    /\ pc' = "loop"
    /\ UNCHANGED <<fn, err, x, mode, n_splits, halves, r, sem,
                   x_in, n_shuffles, n_allocs>>

\* A plausible slip: the standard deviation divided by n_splits itself.
SemNoSqrt(s, n) == RootDiv(Std(s), RootOf(NMul(Num(n), Num(n))))

\* Line 89: numpy.std(r_) / numpy.sqrt(n_splits).
Sem(s, n) == RootDiv(Std(s), RootOf(Num(n)))

\* Lines 87-91: the loop is exhausted; compute and return (r, sem).
SHReturn ==
    /\ fn = "split_half" /\ pc = "loop"
    /\ ~LoopRuns(i, n_splits)
    /\ r' = Mean(r_)
    /\ sem' = Sem(r_, n_splits)
    /\ pc' = "done"
    /\ UNCHANGED <<fn, err, x, mode, n_splits, halves, i, r_, x_1, x_2, m_1, m_2,
                   pearson_r, x_in, n_shuffles, n_writes, n_allocs>>

NextSplit == SHRaiseNSplits \/ SHRaiseMode \/ SHSetup \/ SHShuffle \/ SHTrial \/ SHReturn

SpecSplit == InitSplit /\ [][NextSplit]_vars

\* ------------------------------------------------------------------------
\* test_retest

\* Lines 123-128: Fisher's intraclass correlation for two measurements.
Fisher(y) ==
    LET N   == Len(y[1])
        m   == NDiv(NSum(Tup([j \in 1..N |-> NAdd(y[1][j], y[2][j])], N)),
                    Num(2 * N))
        d0  == Tup([j \in 1..N |-> NSub(y[1][j], m)], N)
        d1  == Tup([j \in 1..N |-> NSub(y[2][j], m)], N)
        var == NDiv(NAdd(NSum(Tup([j \in 1..N |-> NMul(d0[j], d0[j])], N)),
                         NSum(Tup([j \in 1..N |-> NMul(d1[j], d1[j])], N))),
                    Num(2 * N))
    IN  NDiv(NSum(Tup([j \in 1..N |-> NMul(d0[j], d1[j])], N)),
             NMul(Num(N), var))

\* numpy.sum(g, axis=0): one sum per column.
SumAxis0(g, cols) ==
    Tup([j \in 1..cols |-> NSum(Tup([k \in 1..Len(g) |-> g[k][j]], Len(g)))], cols)

\* A plausible slip: c = 1/M instead of 1/(M-1).
HarrisWrongC(y) ==
    LET M   == Len(y)
        N   == Len(y[1])
        m   == NDiv(NSum(SumAxis0(y, N)), Num(M * N))
        sq  == Tup([k \in 1..M |->
                    Tup([j \in 1..N |-> NMul(NSub(y[k][j], m), NSub(y[k][j], m))], N)],
                   M)
        var == NDiv(NSum(SumAxis0(sq, N)), Num(M * N))
        a   == NDiv(Num(M), Num(M - 1))
        mu  == MeanAxis0(y, N)
        b   == NDiv(NSum(Tup([j \in 1..N |-> NMul(NSub(mu[j], m), NSub(mu[j], m))], N)),
                    Num(N))
        c   == NDiv(Num(1), Num(M))
    IN  NSub(NMul(a, NDiv(b, var)), c)

\* Lines 133-141: Harris's intraclass correlation (M >= 2; with M = 1 line
\* 138 divides by float(0), see TRHarris).
Harris(y) ==
    LET M   == Len(y)
        N   == Len(y[1])
        m   == NDiv(NSum(SumAxis0(y, N)), Num(M * N))
        sq  == Tup([k \in 1..M |->
                    Tup([j \in 1..N |-> NMul(NSub(y[k][j], m), NSub(y[k][j], m))], N)],
                   M)
        var == NDiv(NSum(SumAxis0(sq, N)), Num(M * N))
        a   == NDiv(Num(M), Num(M - 1))
        mu  == MeanAxis0(y, N)
        b   == NDiv(NSum(Tup([j \in 1..N |-> NMul(NSub(mu[j], m), NSub(mu[j], m))], N)),
                    Num(N))
        c   == NDiv(Num(1), Num(M - 1))
    IN  NSub(NMul(a, NDiv(b, var)), c)

\* A plausible slip: the Fisher branch taken for two or more measurements.
FisherAppliesAnyM(md, M) == md = "fisher" /\ M >= 2

\* Line 121: mode == 'fisher' and n_measurements == 2.
FisherApplies(md, M) == md = "fisher" /\ M = 2

\* Line 131: elif mode == 'harris'.
HarrisApplies(md, M) == ~FisherApplies(md, M) /\ md = "harris"

SplitLocals == <<n_splits, halves, i, r_, x_1, x_2, m_1, m_2, pearson_r, sem,
                 n_shuffles, n_writes, n_allocs>>

\* Lines 121-128: the Fisher branch assigns r.
TRFisher ==
    /\ fn = "test_retest" /\ pc = "call"
    /\ FisherApplies(mode, n_measurements)
    /\ r' = Fisher(x)
    /\ pc' = "return"
    /\ UNCHANGED <<fn, err, x, mode, x_in, SplitLocals>>

\* Lines 131-141: the Harris branch assigns r; with one measurement the
\* Python float division n_measurements / float(0) raises ZeroDivisionError.
TRHarris ==
    /\ fn = "test_retest" /\ pc = "call"
    /\ HarrisApplies(mode, n_measurements)
    /\ IF n_measurements = 1
       THEN pc' = "error" /\ err' = "ZeroDivisionError" /\ r' = r
       ELSE pc' = "return" /\ err' = err /\ r' = Harris(x)
    /\ UNCHANGED <<fn, x, mode, x_in, SplitLocals>>

\* Lines 121, 131: neither condition holds; control falls to line 143 with r
\* never assigned.
TRFallThrough ==
    /\ fn = "test_retest" /\ pc = "call"
    /\ ~FisherApplies(mode, n_measurements)
    /\ ~HarrisApplies(mode, n_measurements)
    /\ pc' = "return"
    /\ UNCHANGED <<fn, err, x, mode, r, x_in, SplitLocals>>

\* Line 143: return r.  Reading a local that was never assigned raises
\* UnboundLocalError.
TRReturn ==
    /\ fn = "test_retest" /\ pc = "return"
    /\ IF r = Unbound
       THEN pc' = "error" /\ err' = "UnboundLocalError"
       ELSE pc' = "done" /\ err' = err
    /\ UNCHANGED <<fn, x, mode, r, x_in, SplitLocals>>

NextRetest == TRFisher \/ TRHarris \/ TRFallThrough \/ TRReturn

SpecRetest == InitRetest /\ [][NextRetest]_vars

Next == NextSplit \/ NextRetest

Spec == Init /\ [][Next]_vars

\* ------------------------------------------------------------------------
\* Properties.

IsSplit  == fn = "split_half"
IsRetest == fn = "test_retest"

C2_CorrelateAccepted ==
    (IsSplit /\ mode = "correlate" /\ n_splits >= 1) => pc # "error"

NeitherBranch ==
    /\ IsRetest
    /\ ~(mode = "fisher" /\ Len(x) = 2)
    /\ mode # "harris"

\* C3 as stated: test_retest with mode = 'fisher' and M # 2, or with a mode
\* other than 'fisher' / 'harris', assigns nothing to r and ends silently,
\* raising no error to the caller.
C3_SilentFallThrough ==
    NeitherBranch => (r = Unbound /\ pc # "error")

\* C3 as amended: in those calls neither formula branch is evaluated and
\* control reaches the return with r never assigned; the return statement
\* then raises UnboundLocalError, so the call ends in an error and returns no
\* value.
C3_FallThroughRaises ==
    NeitherBranch =>
        /\ r = Unbound
        /\ pc \in {"call", "return", "error"}
        /\ pc = "call" =>
              (~FisherApplies(mode, n_measurements) /\ ~HarrisApplies(mode, n_measurements))
        /\ pc = "error" => err = "UnboundLocalError"

C3_Witness ==
    /\ IsRetest /\ mode = "fisher" /\ Len(x) = 3
    /\ pc = "error" /\ err = "UnboundLocalError" /\ r = Unbound

\* The pooled variance of x is zero exactly when all entries are equal.
AllEntriesEqual ==
    \A k1, k2 \in 1..Len(x) : \A j1, j2 \in 1..Len(x[1]) : x[k1][j1] = x[k2][j2]

\* C4: for every 2 x N matrix whose pooled variance is non-zero, the value
\* test_retest returns in mode 'harris' equals the value it returns in mode
\* 'fisher', in exact arithmetic: whichever of the two modes the call ran
\* in, the value returned is the value of both formulas.
C4_HarrisEqualsFisher ==
    (IsRetest /\ pc = "done" /\ Len(x) = 2 /\ ~AllEntriesEqual) =>
        /\ IsFin(r)
        /\ r = Fisher(x)
        /\ r = Harris(x)

C4_Witness ==
    /\ IsRetest /\ pc = "done" /\ mode = "harris"
    /\ Len(x) = 2 /\ Len(x[1]) = 3 /\ ~AllEntriesEqual
    /\ r = Fin(QRat(1, 3))

RowsLabeled(lab) == {k \in 1..Len(halves) : \A j \in 1..Len(halves[k]) : halves[k][j] = lab}

\* C5: once built, and after any number of shuffles, the label array marks
\* exactly floor(M/2) rows as half 1 and the other M - floor(M/2) rows as
\* half 2, every column of a row carrying the row's label.
C5_HalvesPartition ==
    (IsSplit /\ pc \notin {"call", "error"}) =>
        /\ Len(halves) = Len(x)
        /\ \A k \in 1..Len(halves) : Len(halves[k]) = Len(x[1])
        /\ Cardinality(RowsLabeled(1)) = Len(x) \div 2
        /\ Cardinality(RowsLabeled(2)) = Len(x) - (Len(x) \div 2)

C5_Witness ==
    /\ IsSplit /\ n_shuffles = 2 /\ Len(x) = 3
    /\ halves = <<<<2, 2>>, <<1, 1>>, <<2, 2>>>>

\* C6: the observation matrix is never mutated: in every state of a call of
\* split_half or of test_retest, x equals its value at call entry.
C6_InputNeverMutated == x = x_in

C6_Witness ==
    /\ IsSplit /\ pc = "done" /\ n_shuffles = 2
    /\ halves # InitialHalves(Len(x), Len(x[1]), Len(x) \div 2)

\* The sample s is 2p/(1+p): s * (1 + p) = 2p where 1 + p # 0, and the IEEE
\* value of -2/0, minus infinity, at p = -1; nan for p = nan.
IsSpearmanBrown(s, p) ==
    CASE p.k = "nan" -> s.k = "nan"
      [] p = Num(-1) -> s = NInf
      [] OTHER       -> IsFin(s) /\ NMul(s, NAdd(Num(1), p)) = NMul(Num(2), p)

\* C7: after every trial the sample stored for it is the raw half-means
\* correlation p when mode is 'correlation' and 2p/(1+p) when mode is
\* 'spearman-brown'; the entries of later trials still hold their initial 0.
C7_TrialSample ==
    (IsSplit /\ i >= 1) =>
        /\ pearson_r = Pearsonr(m_1, m_2)
        /\ mode = "correlation" => r_[i] = pearson_r
        /\ mode = "spearman-brown" => IsSpearmanBrown(r_[i], pearson_r)
        /\ \A k \in (i + 1)..n_splits : r_[k] = Num(0)

C7_Witness ==
    /\ IsSplit /\ mode = "spearman-brown" /\ i = 2
    /\ pearson_r = Fin(QRat(1, 2))
    /\ r_[2] = Fin(QRat(2, 3))

AllSamplesFinite == \A k \in 1..Len(r_) : IsFin(r_[k])

\* r is the mean of the samples and sem is their population standard
\* deviation over sqrt(n_splits): n*r is the sum of the samples, and sem is
\* the non-negative root with n * n * sem^2 = sum of (sample - r)^2.
IsMeanAndSem ==
    LET n == n_splits
    IN  /\ IsFin(r) /\ sem.k = "fin"
        /\ NMul(Num(n), r) = NSum(r_)
        /\ sem.sgn \in {0, 1}
        /\ sem.sgn = 0 <=> sem.sq = {}
        /\ NMul(Num(n * n), Fin(sem.sq))
             = NSum(Tup([k \in 1..n |-> NMul(NSub(r_[k], r), NSub(r_[k], r))], n))

SemIsZero == sem.k = "fin" /\ sem.sgn = 0 /\ sem.sq = {}

\* C8 as stated: every valid call returns sem >= 0, with r the mean of the
\* samples and sem their population standard deviation over sqrt(n_splits);
\* with n_splits = 1 the result is (the single sample, 0).
C8_SemNonNegative ==
    (IsSplit /\ pc = "done") =>
        /\ IsMeanAndSem
        /\ n_splits = 1 => (r = r_[1] /\ SemIsZero)

\* C8 as amended: the same, for every valid call whose trial samples are all
\* finite; when a sample is nan or infinite the returned sem is nan.
C8_SemNonNegativeIfFinite ==
    (IsSplit /\ pc = "done") =>
        IF AllSamplesFinite
        THEN /\ IsMeanAndSem
             /\ n_splits = 1 => (r = r_[1] /\ SemIsZero)
        ELSE sem.k = "nan"

C8_Witness ==
    /\ IsSplit /\ pc = "done" /\ n_splits = 2 /\ AllSamplesFinite
    /\ r_[1] # r_[2]
    /\ sem.sgn = 1

\* The k-th smallest element of a set of row indices.
Kth(S, k) == CHOOSE e \in S : Cardinality({f \in S : f < e}) = k - 1

RowsOf(lab) == {k \in 1..Len(halves) : halves[k][1] = lab}

IsRowsOf(g, lab) ==
    /\ Len(g) = Cardinality(RowsOf(lab))
    /\ \A k \in 1..Len(g) : g[k] = x[Kth(RowsOf(lab), k)]

\* C9: after every trial the two group matrices are exactly the labeled rows
\* of x: row k of group 1 is the k-th row of x (ascending) labeled half 1,
\* likewise for group 2, each entry staying in its column; the two row sets
\* are disjoint and together hold every row once.
C9_GroupsAreLabeledRows ==
    (IsSplit /\ pc \in {"loop", "done"} /\ i >= 1) =>
        /\ IsRowsOf(x_1, 1)
        /\ IsRowsOf(x_2, 2)
        /\ RowsOf(1) \cap RowsOf(2) = {}
        /\ RowsOf(1) \cup RowsOf(2) = 1..Len(x)

C9_Witness ==
    /\ IsSplit /\ pc = "loop" /\ i = 1 /\ Len(x) = 3
    /\ RowsOf(2) = {1, 3}
    /\ x[1] # x[3] /\ x[1][1] # x[1][2]
    /\ x_2 = <<x[1], x[3]>>

\* C10: a valid call runs exactly n_splits trials in sequence and then
\* returns: the label array is created once, trial i makes one shuffle and
\* writes sample i once and no other, and (r, sem) is returned only when all
\* n_splits samples are written (the trial index only grows, up to n_splits).
C10_TrialsInSequence ==
    (IsSplit /\ pc \notin {"call", "error"}) =>
        /\ n_allocs = 1
        /\ 0 <= i /\ i <= n_splits
        /\ pc = "loop" => n_shuffles = i
        /\ pc = "trial" => (n_shuffles = i + 1 /\ i < n_splits)
        /\ Len(r_) = n_splits
        /\ \A k \in 1..n_splits : n_writes[k] = IF k <= i THEN 1 ELSE 0
        /\ pc = "done" => (i = n_splits /\ n_shuffles = n_splits)
        /\ pc = "done" <=> r # Unbound
        /\ pc \in {"loop", "trial", "done"}

C10_Witness ==
    /\ IsSplit /\ pc = "done" /\ n_splits = 2
    /\ n_shuffles = 2 /\ n_writes = <<1, 1>>

=============================================================================
